---- MODULE Spec2Model ----
(***************************************************************************)
(* The reminder store of assgn-1.ts: class ReminderDatabase (an ordered    *)
(* Map from id to Reminder, rewritten to one JSON file on every mutation)  *)
(* and the prompt loop that calls one of its methods per menu choice.      *)
(*                                                                         *)
(* Strings that the code only stores and compares (message, time) are TLA+ *)
(* strings.  An id, which the code builds with Number.toString(), is the   *)
(* sequence of its decimal digits, so that its length can be measured.     *)
(***************************************************************************)
EXTENDS Integers, Sequences, FiniteSets, TLC

VARIABLES
    reminders,   \* this.reminders: the Map, as the sequence of its entries in insertion order
    file,        \* what is on disk under this.filename
    pc,          \* "stopped" | "running" | "generating" (inside generateUniqueId's loop)
    lastOp,      \* the last method called and its arguments
    lastResult   \* what that call returned (or that it threw)

vars == <<reminders, file, pc, lastOp, lastResult>>

-----------------------------------------------------------------------------
(* Bounds of the model *)

\* createReminder is not called once the store holds this many reminders, nor
\* when the store holds every id of the model (the 90 million ids of the program
\* are never all in use)
MaxReminders == 2

-----------------------------------------------------------------------------
(* Values *)

\* null (JSON null, and getReminder's "not there")
Null == [null |-> TRUE]
\* undefined (Map.prototype.get on an absent key)
Undefined == [undefined |-> TRUE]

\* messages typed at the prompt
Messages == {"", "buy milk"}
\* times typed at the prompt; nothing validates them
Times == {"", "2024-01-01 23:59", "2024-01-03 00:00"}

MinutesPerDay == 24 * 60
\* readings of the clock (moment()), in minutes since 2024-01-01 00:00 local time:
\* 2024-01-01 12:00, 2024-01-02 12:00, 2024-01-03 08:30
Nows == {12 * 60, MinutesPerDay + 12 * 60, 2 * MinutesPerDay + 8 * 60 + 30}

\* Number.prototype.toString(): the decimal digits of n >= 0, most significant first
RECURSIVE toString(_)
toString(n) == IF n < 10 THEN <<n>> ELSE Append(toString(n \div 10), n % 10)

IdBase == 10000000
IdSpan == 90000000

\* Math.random() is k / 90000000 for a k of Randoms: 0, the least value it
\* returns, and 1 - 1/90000000, which is floored like the values just below 1
Randoms == {0, IdSpan - 1}

\* line 26: Math.floor(10000000 + Math.random() * 90000000).toString(), with
\* Math.random() = k / 90000000, so that Math.random() * 90000000 = k
DrawId(k) == toString(IdBase + k)

\* the ids generateUniqueId draws in the model
DrawableIds == {DrawId(k) : k \in Randoms}
\* ids typed at the prompt: the drawable ones and one that is never drawn ("123")
TypedIds == DrawableIds \cup {<<1, 2, 3>>}

-----------------------------------------------------------------------------
(* The Map: a sequence of entries [key, value], in insertion order *)

MapHas(map, k) == \E i \in DOMAIN map : map[i].key = k

MapIndex(map, k) == CHOOSE i \in DOMAIN map : map[i].key = k

\* Map.prototype.get: undefined when the key is absent
MapGet(map, k) == IF MapHas(map, k) THEN map[MapIndex(map, k)].value ELSE Undefined

\* a set that moves an existing key behind the others
MapSetMovesLast(map, k, v) ==
    Append(SelectSeq(map, LAMBDA e : e.key # k), [key |-> k, value |-> v])

\* Map.prototype.set: an existing key keeps its position, a new key goes last
MapSet(map, k, v) ==
    IF MapHas(map, k)
    THEN [map EXCEPT ![MapIndex(map, k)] = [key |-> k, value |-> v]]
    ELSE Append(map, [key |-> k, value |-> v])

\* Map.prototype.delete
MapDelete(map, k) == SelectSeq(map, LAMBDA e : e.key # k)

\* Map.prototype.values(), spread into an array
MapValues(map) == [i \in DOMAIN map |-> map[i].value]

MapKeys(map) == {map[i].key : i \in DOMAIN map}

-----------------------------------------------------------------------------
(* Persistence.  The file is [kind, data]:                                  *)
(*   "missing"  no file under this.filename                                 *)
(*   "invalid"  text that is not JSON (readJsonSync throws)                 *)
(*   "object"   JSON that is not iterable, such as {} (new Map throws)      *)
(*   "null"     the JSON text null (new Map(null) is an empty Map)          *)
(*   "array"    a JSON array of two-element arrays; data is the sequence    *)
(*              of pairs <<key, value>>                                     *)

FileOf(kind, data) == [kind |-> kind, data |-> data]

\* Array.from(this.reminders.entries()): the pairs [key, value] in Map order
Entries(map) == [i \in DOMAIN map |-> <<map[i].key, map[i].value>>]

\* new Map(data): the pairs are set one after the other, so a later pair with a
\* key seen before replaces the value and keeps the first position
RECURSIVE NewMap(_)
NewMap(data) ==
    IF data = <<>> THEN <<>>
    ELSE LET n == Len(data)
         IN  MapSet(NewMap(SubSeq(data, 1, n - 1)), data[n][1], data[n][2])

\* how a write ends: "ok"; "denied" (nothing written, writeJsonSync throws);
\* "partial" (the file was truncated and the write then failed, it throws too)
WriteOutcomes == {"ok", "denied", "partial"}

\* saveToFile() that returns without having written
saveToFileNotWritten(map, f, w) == f

\* a save that leaves alone a file that cannot be read
saveToFileOverReadable(map, f, w) ==
    IF f.kind \in {"invalid", "object"} \/ w = "denied" THEN f
    ELSE IF w = "ok" THEN FileOf("array", Entries(map))
    ELSE FileOf("invalid", <<>>)

\* lines 106-108: the file after saveToFile() on map, the write ending as w
saveToFile(map, f, w) ==
    CASE w = "ok"      -> FileOf("array", Entries(map))
      [] w = "denied"  -> f
      [] w = "partial" -> FileOf("invalid", <<>>)

\* loadFromFile() that reads the file and leaves this.reminders as it was
loadFromFileUnassigned(f) == <<>>

\* lines 110-120: this.reminders after loadFromFile(), having been set to an
\* empty Map by the constructor (line 17)
loadFromFile(f) ==
    CASE f.kind = "missing" -> <<>>
      [] f.kind = "invalid" -> <<>>
      [] f.kind = "object"  -> <<>>
      [] f.kind = "null"    -> <<>>
      [] f.kind = "array"   -> NewMap(f.data)

\* whether loadFromFile() went through its catch block (line 116)
LoadThrows(f) == f.kind \in {"invalid", "object"}

-----------------------------------------------------------------------------
(* Calls and their results *)

\* a call: the method and its arguments (<<>> and 0 where it has none)
Op(name, id, message, time, now) ==
    [name |-> name, id |-> id, message |-> message, time |-> time, now |-> now]

\* a returned value: msg names the string template (or the kind of value), value
\* is the id interpolated into it (or the value itself)
Result(msg, value) == [msg |-> msg, value |-> value]

\* an exception that nothing catches: it leaves promptUser and ends the process
Threw == Result("threw", Null)

\* a Reminder that keeps the message in both fields
NewReminderMessageTwice(id, message, time) ==
    [id |-> id, message |-> message, time |-> message, completed |-> FALSE]

\* line 34: the Reminder createReminder inserts
NewReminder(id, message, time) ==
    [id |-> id, message |-> message, time |-> time, completed |-> FALSE]

\* An optional string argument (message?: string) is <<>> when it is not passed
\* and <<s>> when the string s is passed.
OptArgs(S) == {<<>>} \cup {<<s>> : s \in S}

\* JavaScript truthiness of an optional string argument: neither undefined nor ""
Truthy(a) == a # <<>> /\ a[1] # ""

-----------------------------------------------------------------------------
(* moment: a moment is [valid, at], at in minutes since 2024-01-01 00:00     *)

\* moment(s) for the strings of Times: the ISO form parses, anything else here
\* ("" in particular) gives an invalid moment
moment(s) ==
    CASE s = "2024-01-01 23:59" -> [valid |-> TRUE, at |-> 23 * 60 + 59]
      [] s = "2024-01-03 00:00" -> [valid |-> TRUE, at |-> 2 * MinutesPerDay]
      [] OTHER                  -> [valid |-> FALSE, at |-> 0]

\* moment().format("YYYY-MM-DD"): the calendar day of a clock reading, as the
\* number of days since 2024-01-01
FormatDay(now) == now \div MinutesPerDay

\* moment("YYYY-MM-DD"): local midnight of that day
MomentOfDay(day) == [valid |-> TRUE, at |-> day * MinutesPerDay]

\* m.clone().startOf("day") and m.clone().endOf("day")
StartOfDay(m) == m.at - (m.at % MinutesPerDay)
EndOfDay(m) == StartOfDay(m) + MinutesPerDay - 1

\* moment's isSame(input, "day") and isBefore(input, "day")
isSame(m, input) ==
    /\ m.valid /\ input.valid
    /\ StartOfDay(m) <= input.at
    /\ input.at <= EndOfDay(m)

isBefore(m, input) ==
    /\ m.valid /\ input.valid
    /\ EndOfDay(m) < input.at

\* isSameOrBefore(today) without the "day": a comparison of the instants
isSameOrBeforeInstant(m, input) == m.valid /\ input.valid /\ m.at <= input.at

\* line 84: moment(reminder.time).isSameOrBefore(today, "day")
isSameOrBefore(m, input) == isSame(m, input) \/ isBefore(m, input)

-----------------------------------------------------------------------------
(* The queries, as the values they return *)

HasNull(map) == \E i \in DOMAIN map : map[i].value = Null

\* line 41
exists(map, id) == MapHas(map, id)

\* line 67: this.reminders.get(id) || null.  undefined and null are falsy, an
\* object is truthy
getReminder(map, id) ==
    LET v == MapGet(map, id)
    IN  IF v = Undefined \/ v = Null THEN Null ELSE v

\* line 62
getAllReminders(map) == MapValues(map)

\* line 72 (the callback reads reminder.completed: a null value throws)
getAllRemindersMarkedAsCompleted(map) ==
    SelectSeq(MapValues(map), LAMBDA r : r.completed)

\* a pending list without its filter
getAllRemindersNotFiltered(map) == MapValues(map)

\* line 77
getAllRemindersNotMarkedAsCompleted(map) ==
    SelectSeq(MapValues(map), LAMBDA r : ~r.completed)

\* lines 82-85, the clock reading now
getAllRemindersDueByToday(map, now) ==
    LET today == FormatDay(now)
    IN  SelectSeq(MapValues(map),
                  LAMBDA r : isSameOrBefore(moment(r.time), MomentOfDay(today)))

-----------------------------------------------------------------------------
(* The mutating methods, as the Map they leave in this.reminders *)

\* line 34
createReminder(map, id, message, time) ==
    MapSet(map, id, NewReminder(id, message, time))

\* completed set on every reminder of the Map
setCompletedAll(map, id, flag) ==
    [i \in DOMAIN map |-> [map[i] EXCEPT !.value.completed = flag]]

\* completed flipped whatever the flag
setCompletedToggles(map, id, flag) ==
    [map EXCEPT ![MapIndex(map, id)].value.completed = ~@]

\* completed set to true whatever the flag
setCompletedAlways(map, id, flag) ==
    [map EXCEPT ![MapIndex(map, id)].value.completed = TRUE]

\* lines 47 and 55: the Reminder object is changed in place, for an id the Map has
setCompleted(map, id, flag) ==
    [map EXCEPT ![MapIndex(map, id)].value.completed = flag]

markReminderAsCompleted(map, id) == setCompleted(map, id, TRUE)

unmarkReminderAsCompleted(map, id) == setCompleted(map, id, FALSE)

\* an update that overwrites with every string passed, the empty one too
updateReminderAnyString(map, id, message, time) ==
    LET reminder == MapGet(map, id)
        withMessage == IF message # <<>>
                       THEN [reminder EXCEPT !.message = message[1]]
                       ELSE reminder
        withTime == IF time # <<>>
                    THEN [withMessage EXCEPT !.time = time[1]]
                    ELSE withMessage
    IN  MapSet(map, id, withTime)

\* lines 91-94, for an id the Map has and a value that is a Reminder
updateReminder(map, id, message, time) ==
    LET reminder == MapGet(map, id)
        withMessage == IF Truthy(message)
                       THEN [reminder EXCEPT !.message = message[1]]
                       ELSE reminder
        withTime == IF Truthy(time)
                    THEN [withMessage EXCEPT !.time = time[1]]
                    ELSE withMessage
    IN  MapSet(map, id, withTime)

\* a removal that takes the oldest entry
removeReminderOldest(map, id) == Tail(map)

\* line 101
removeReminder(map, id) == MapDelete(map, id)

-----------------------------------------------------------------------------
(* How a call ends *)

\* a saveToFile() whose failure is swallowed: the method returns its result
SavedSilently(op, map, result, w) ==
    /\ reminders' = map
    /\ file' = saveToFile(map, file, w)
    /\ lastOp' = op
    /\ lastResult' = result
    /\ pc' = "running"

\* the method changed this.reminders to map and called saveToFile(); a write
\* that fails throws out of the method and out of promptUser
Saved(op, map, result, w) ==
    /\ reminders' = map
    /\ file' = saveToFile(map, file, w)
    /\ lastOp' = op
    /\ lastResult' = IF w = "ok" THEN result ELSE Threw
    /\ pc' = IF w = "ok" THEN "running" ELSE "stopped"

\* a return after saveToFile() has been called
ReturnedAfterSave(op, result) ==
    /\ lastOp' = op
    /\ lastResult' = result
    /\ pc' = "running"
    /\ file' = saveToFile(reminders, file, "ok")
    /\ UNCHANGED reminders

\* the method returned without touching the Map or the file
Returned(op, result) ==
    /\ lastOp' = op
    /\ lastResult' = result
    /\ pc' = "running"
    /\ UNCHANGED <<reminders, file>>

\* the method threw a TypeError before it changed anything
Crashed(op) ==
    /\ lastOp' = op
    /\ lastResult' = Threw
    /\ pc' = "stopped"
    /\ UNCHANGED <<reminders, file>>

-----------------------------------------------------------------------------
(* Actions *)

\* line 124 and lines 16-20: a process starts and constructs the store
Construct ==
    /\ pc = "stopped"
    /\ reminders' = loadFromFile(file)
    /\ lastOp' = Op("construct", <<>>, <<>>, <<>>, 0)
    /\ lastResult' = Result("constructed", LoadThrows(file))
    /\ pc' = "running"
    /\ UNCHANGED file

\* a loop that repeats every draw
CollidesAlways(map, id) == TRUE

\* a loop that never repeats a draw
CollidesNever(map, id) == FALSE

\* line 27: the loop's condition, true when the draw has to be repeated
Collides(map, id) == MapHas(map, id)

\* lines 25-27 and 33-36: one draw of generateUniqueId's loop for the call
\* createReminder(message, time); a draw the Map has repeats the loop
Draw(message, time, k, w) ==
    LET id == DrawId(k)
        op == Op("createReminder", <<>>, message, time, 0)
    IN  IF Collides(reminders, id)
        THEN /\ pc' = "generating"
             /\ lastOp' = op
             /\ lastResult' = Result("drawn again", id)
             /\ UNCHANGED <<reminders, file>>
        ELSE Saved(op, createReminder(reminders, id, message, time),
                   Result("created", id), w)

\* choice 1
CreateReminder(message, time, k, w) ==
    /\ pc = "running"
    /\ Len(reminders) < MaxReminders
    /\ \E free \in Randoms : ~MapHas(reminders, DrawId(free))
    /\ Draw(message, time, k, w)

\* the loop of generateUniqueId goes round again
Redraw(k, w) ==
    /\ pc = "generating"
    /\ Draw(lastOp.message, lastOp.time, k, w)

\* exists(id); the prompt has no choice for it
Exists(id) ==
    /\ pc = "running"
    /\ Returned(Op("exists", id, <<>>, <<>>, 0), Result("boolean", exists(reminders, id)))

\* choice 2
GetReminder(id) ==
    /\ pc = "running"
    /\ Returned(Op("getReminder", id, <<>>, <<>>, 0),
                Result("reminder", getReminder(reminders, id)))

\* choice 5
GetAllReminders ==
    /\ pc = "running"
    /\ Returned(Op("getAllReminders", <<>>, <<>>, <<>>, 0),
                Result("list", getAllReminders(reminders)))

\* choice 8
GetAllRemindersMarkedAsCompleted ==
    /\ pc = "running"
    /\ LET op == Op("getAllRemindersMarkedAsCompleted", <<>>, <<>>, <<>>, 0)
       IN  IF HasNull(reminders)
           THEN Crashed(op)
           ELSE Returned(op, Result("list", getAllRemindersMarkedAsCompleted(reminders)))

\* choice 9
GetAllRemindersNotMarkedAsCompleted ==
    /\ pc = "running"
    /\ LET op == Op("getAllRemindersNotMarkedAsCompleted", <<>>, <<>>, <<>>, 0)
       IN  IF HasNull(reminders)
           THEN Crashed(op)
           ELSE Returned(op, Result("list", getAllRemindersNotMarkedAsCompleted(reminders)))

\* choice 10
GetAllRemindersDueByToday(now) ==
    /\ pc = "running"
    /\ LET op == Op("getAllRemindersDueByToday", <<>>, <<>>, <<>>, now)
       IN  IF HasNull(reminders)
           THEN Crashed(op)
           ELSE Returned(op, Result("list", getAllRemindersDueByToday(reminders, now)))

\* choice 6, lines 45-50
MarkReminderAsCompleted(id, w) ==
    /\ pc = "running"
    /\ LET op == Op("markReminderAsCompleted", id, <<>>, <<>>, 0)
       IN  IF ~MapHas(reminders, id) THEN Returned(op, Result("not found", id))
           ELSE IF MapGet(reminders, id) = Null THEN Crashed(op)
           ELSE Saved(op, markReminderAsCompleted(reminders, id),
                      Result("marked as completed", id), w)

\* choice 7, lines 53-58
UnmarkReminderAsCompleted(id, w) ==
    /\ pc = "running"
    /\ LET op == Op("unmarkReminderAsCompleted", id, <<>>, <<>>, 0)
       IN  IF ~MapHas(reminders, id) THEN Returned(op, Result("not found", id))
           ELSE IF MapGet(reminders, id) = Null THEN Crashed(op)
           ELSE Saved(op, unmarkReminderAsCompleted(reminders, id),
                      Result("unmarked as completed", id), w)

\* choice 3, lines 89-97
UpdateReminder(id, message, time, w) ==
    /\ pc = "running"
    /\ LET op == Op("updateReminder", id, message, time, 0)
       IN  IF ~MapHas(reminders, id) THEN Returned(op, Result("not found", id))
           ELSE IF MapGet(reminders, id) = Null
           THEN IF Truthy(message) \/ Truthy(time)
                THEN Crashed(op)
                ELSE Saved(op, reminders, Result("updated", id), w)
           ELSE Saved(op, updateReminder(reminders, id, message, time),
                      Result("updated", id), w)

\* choice 4, lines 100-104
RemoveReminder(id, w) ==
    /\ pc = "running"
    /\ LET op == Op("removeReminder", id, <<>>, <<>>, 0)
       IN  IF ~MapHas(reminders, id) THEN Returned(op, Result("not found", id))
           ELSE Saved(op, removeReminder(reminders, id), Result("deleted", id), w)

\* choice 11: promptUser returns and the process ends
Exit ==
    /\ pc = "running"
    /\ pc' = "stopped"
    /\ lastOp' = Op("exit", <<>>, <<>>, <<>>, 0)
    /\ lastResult' = Result("goodbye", Null)
    /\ UNCHANGED <<reminders, file>>

Next ==
    \/ Construct
    \/ \E message \in Messages, time \in Times, k \in Randoms, w \in WriteOutcomes :
           CreateReminder(message, time, k, w)
    \/ \E k \in Randoms, w \in WriteOutcomes : Redraw(k, w)
    \/ \E id \in TypedIds : Exists(id)
    \/ \E id \in TypedIds : GetReminder(id)
    \/ GetAllReminders
    \/ GetAllRemindersMarkedAsCompleted
    \/ GetAllRemindersNotMarkedAsCompleted
    \/ \E now \in Nows : GetAllRemindersDueByToday(now)
    \/ \E id \in TypedIds, w \in WriteOutcomes : MarkReminderAsCompleted(id, w)
    \/ \E id \in TypedIds, w \in WriteOutcomes : UnmarkReminderAsCompleted(id, w)
    \/ \E id \in TypedIds, message \in OptArgs(Messages), time \in OptArgs(Times),
          w \in WriteOutcomes : UpdateReminder(id, message, time, w)
    \/ \E id \in TypedIds, w \in WriteOutcomes : RemoveReminder(id, w)
    \/ Exit

-----------------------------------------------------------------------------
(* Initial states: no process is running yet *)

\* the file when the store is its only writer (section 5 of the specification):
\* never written, or cut short by a failed write
OwnFiles == {FileOf("missing", <<>>), FileOf("invalid", <<>>)}

InitWith(files) ==
    /\ file \in files
    /\ reminders = <<>>
    /\ pc = "stopped"
    /\ lastOp = Op("none", <<>>, <<>>, <<>>, 0)
    /\ lastResult = Result("none", Null)

Init == InitWith(OwnFiles)

Spec == Init /\ [][Next]_vars

\* Math.random() is fair: while the loop of generateUniqueId goes on, each of
\* its values is drawn again and again
FairDraws == \A k \in Randoms : WF_vars(\E w \in WriteOutcomes : Redraw(k, w))

SpecFair == Init /\ [][Next]_vars /\ FairDraws

\* files that something else wrote: JSON, but not what saveToFile() writes
LowId == DrawId(0)
HighId == DrawId(IdSpan - 1)
ForeignFiles ==
    { FileOf("object", <<>>),
      FileOf("null", <<>>),
      \* [["10000000", null]]
      FileOf("array", << <<LowId, Null>> >>),
      \* a Reminder under a key that is not its id
      FileOf("array", << <<LowId, NewReminder(HighId, "buy milk", "")>> >>),
      \* the same key twice
      FileOf("array", << <<LowId, NewReminder(LowId, "", "")>>,
                         <<HighId, NewReminder(HighId, "buy milk", "")>>,
                         <<LowId, NewReminder(LowId, "buy milk", "")>> >>) }

InitAnyFile == InitWith(OwnFiles \cup ForeignFiles)

SpecAnyFile == InitAnyFile /\ [][Next]_vars

-----------------------------------------------------------------------------
(* Vocabulary of the properties *)

\* the templates of the strings a mutating method returns when it has succeeded
SuccessMsgs ==
    {"created", "marked as completed", "unmarked as completed", "updated", "deleted"}

\* the methods that take the id of an existing reminder and change the store
IdMutators ==
    {"markReminderAsCompleted", "unmarkReminderAsCompleted", "updateReminder",
     "removeReminder"}

\* the number a sequence of decimal digits writes
RECURSIVE DigitsValue(_)
DigitsValue(d) ==
    IF d = <<>> THEN 0
    ELSE DigitsValue(SubSeq(d, 1, Len(d) - 1)) * 10 + d[Len(d)]

\* the ids of the reminders of a list
IdsOf(list) == {list[i].id : i \in DOMAIN list}

\* the file holds the pairs of the Map, in the Map's order
FileHoldsMap(f, map) ==
    /\ f.kind = "array"
    /\ Len(f.data) = Len(map)
    /\ \A i \in DOMAIN map : f.data[i][1] = map[i].key /\ f.data[i][2] = map[i].value

-----------------------------------------------------------------------------
(* C1: after a mutating call (create, update, remove, mark, unmark) has     *)
(* returned its success string, the file holds exactly the pairs of the     *)
(* in-memory Map: same ids, same fields, same order.                        *)
C1_FileEqualsMemoryAfterMutation ==
    lastResult.msg \in SuccessMsgs => FileHoldsMap(file, reminders)

\* an update has succeeded on a store of two reminders, one of them completed
C1_Witness ==
    /\ lastResult.msg = "updated"
    /\ Len(reminders) = 2
    /\ reminders[1].value.completed
    /\ FileHoldsMap(file, reminders)

-----------------------------------------------------------------------------
(* C2: every id createReminder returns is 8 decimal digits writing a number *)
(* of 10000000 .. 99999999 and is none of the ids the store held when it    *)
(* was called; the call adds one entry and leaves the entries that were     *)
(* there as they were.                                                      *)
C2_CreatedIdIsFresh8Digits ==
    [][lastResult'.msg = "created" =>
         LET id == lastResult'.value
         IN  /\ Len(id) = 8
             /\ \A i \in DOMAIN id : id[i] \in 0 .. 9
             /\ DigitsValue(id) >= 10000000
             /\ DigitsValue(id) <= 99999999
             /\ id \notin MapKeys(reminders)
             /\ Len(reminders') = Len(reminders) + 1
             /\ \A i \in DOMAIN reminders : reminders'[i] = reminders[i]]_vars

\* a create has returned while the store already held a reminder, and the id
\* it returned is the greatest of the range
C2_Witness ==
    /\ lastResult.msg = "created"
    /\ Len(reminders) = 2
    /\ DigitsValue(lastResult.value) = 99999999

-----------------------------------------------------------------------------
(* C3: when createReminder(message, time) has returned an id, getReminder   *)
(* of that id is a Reminder with that message and that time, unchanged, and *)
(* completed = false.                                                       *)
C3_GetAfterCreate ==
    lastResult.msg = "created" =>
        LET r == getReminder(reminders, lastResult.value)
        IN  /\ r # Null
            /\ r.message = lastOp.message
            /\ r.time = lastOp.time
            /\ r.completed = FALSE

\* create("buy milk", "2024-01-01 23:59") has returned, as the second reminder
C3_Witness ==
    /\ lastResult.msg = "created"
    /\ lastOp.message = "buy milk"
    /\ lastOp.time = "2024-01-01 23:59"
    /\ Len(reminders) = 2
    /\ getReminder(reminders, lastResult.value).message = "buy milk"

-----------------------------------------------------------------------------
(* C4: a store constructed on the file that a store which exited left       *)
(* behind lists the same reminders as that store did: same ids, messages,   *)
(* times and completed flags, in the same order.                            *)
C4_RestartRoundTrip ==
    [][(lastOp.name = "exit" /\ lastOp'.name = "construct") =>
         /\ getAllReminders(reminders') = getAllReminders(reminders)
         /\ reminders' = reminders]_vars

\* a store has been constructed from a file of two reminders, the first one
\* completed and the second one pending
C4_Witness ==
    /\ lastOp.name = "construct"
    /\ Len(reminders) = 2
    /\ reminders[1].value.completed
    /\ ~reminders[2].value.completed
    /\ reminders[2].value.message = "buy milk"

-----------------------------------------------------------------------------
(* C5: when markReminderAsCompleted(id) has succeeded, the completed list   *)
(* has a reminder of that id and the pending list has none; when            *)
(* unmarkReminderAsCompleted(id) has succeeded, the pending list has one    *)
(* and the completed list has none.                                         *)
C5_MarkMovesBetweenLists ==
    /\ lastResult.msg = "marked as completed" =>
          /\ lastOp.id \in IdsOf(getAllRemindersMarkedAsCompleted(reminders))
          /\ lastOp.id \notin IdsOf(getAllRemindersNotMarkedAsCompleted(reminders))
    /\ lastResult.msg = "unmarked as completed" =>
          /\ lastOp.id \in IdsOf(getAllRemindersNotMarkedAsCompleted(reminders))
          /\ lastOp.id \notin IdsOf(getAllRemindersMarkedAsCompleted(reminders))

\* a reminder has been unmarked while the other reminder of the store is completed
C5_Witness ==
    /\ lastResult.msg = "unmarked as completed"
    /\ Len(reminders) = 2
    /\ Len(getAllRemindersMarkedAsCompleted(reminders)) = 1
    /\ Len(getAllRemindersNotMarkedAsCompleted(reminders)) = 1

-----------------------------------------------------------------------------
(* C6: updateReminder(id, message, time) on an id of the store reports      *)
(* success unless the write fails, and when it has reported success the     *)
(* Reminder of id has the message passed if one was passed and is not "",   *)
(* else the message it had; the same for time; and the id and the completed *)
(* flag it had.  With neither passed the Reminder is as it was.             *)
C6_UpdateOnlySuppliedFields ==
    [][(lastOp'.name = "updateReminder" /\ MapHas(reminders, lastOp'.id)) =>
         LET id == lastOp'.id
             message == lastOp'.message
             time == lastOp'.time
             old == MapGet(reminders, id)
             new == MapGet(reminders', id)
         IN  /\ lastResult'.msg \in {"updated", "threw"}
             /\ lastResult'.msg = "updated" =>
                  /\ new.id = old.id
                  /\ new.completed = old.completed
                  /\ new.message = IF message \in {<<>>, <<"">>} THEN old.message
                                   ELSE message[1]
                  /\ new.time = IF time \in {<<>>, <<"">>} THEN old.time ELSE time[1]
                  /\ (message = <<>> /\ time = <<>>) => new = old]_vars

\* update(id, "", "2024-01-03 00:00") has succeeded on a completed reminder whose
\* message is "buy milk": the time changed, the message and the flag stayed
C6_Witness ==
    /\ lastOp.name = "updateReminder"
    /\ lastResult.msg = "updated"
    /\ lastOp.message = <<"">>
    /\ lastOp.time = <<"2024-01-03 00:00">>
    /\ MapGet(reminders, lastOp.id).message = "buy milk"
    /\ MapGet(reminders, lastOp.id).time = "2024-01-03 00:00"
    /\ MapGet(reminders, lastOp.id).completed

-----------------------------------------------------------------------------
(* C7: when removeReminder(id) has succeeded, getReminder(id) is null and   *)
(* exists(id) is false; a removeReminder(id) called next returns "not       *)
(* found" and the process goes on; and in a process that goes on an absent  *)
(* id comes into the store only as the id a createReminder returns.         *)
C7_RemovedStaysAbsent ==
    [][/\ lastResult'.msg = "deleted" =>
            /\ getReminder(reminders', lastOp'.id) = Null
            /\ ~exists(reminders', lastOp'.id)
       /\ (/\ lastResult.msg = "deleted"
           /\ lastOp'.name = "removeReminder"
           /\ lastOp'.id = lastOp.id) =>
            /\ lastResult'.msg = "not found"
            /\ lastResult'.value = lastOp.id
            /\ pc' = "running"
       /\ \A id \in TypedIds :
            (/\ pc # "stopped" /\ pc' # "stopped"
             /\ ~exists(reminders, id) /\ exists(reminders', id)) =>
                (lastResult'.msg = "created" /\ lastResult'.value = id)]_vars

\* the first of two reminders has been removed
C7_Witness ==
    /\ lastResult.msg = "deleted"
    /\ Len(reminders) = 1
    /\ lastOp.id = DrawId(0)
    /\ reminders[1].key # lastOp.id

-----------------------------------------------------------------------------
(* C8: markReminderAsCompleted, unmarkReminderAsCompleted, updateReminder   *)
(* and removeReminder called with an id the store does not hold return      *)
(* "not found" for that id, throw nothing, and leave the Map and the file   *)
(* as they were.                                                            *)
C8_NotFoundChangesNothing ==
    [][(lastOp'.name \in IdMutators /\ ~MapHas(reminders, lastOp'.id)) =>
         /\ lastResult'.msg = "not found"
         /\ lastResult'.value = lastOp'.id
         /\ pc' = "running"
         /\ reminders' = reminders
         /\ file' = file]_vars

\* an update with both fields has been refused for an id that was removed, while
\* the store holds another reminder
C8_Witness ==
    /\ lastOp.name = "updateReminder"
    /\ lastResult.msg = "not found"
    /\ lastOp.id \in DrawableIds
    /\ lastOp.message = <<"buy milk">>
    /\ lastOp.time = <<"2024-01-01 23:59">>
    /\ Len(reminders) = 1

-----------------------------------------------------------------------------
(* C9: getAllRemindersDueByToday() returns, in the order of the store, the  *)
(* reminders whose time has a calendar date that is the date of the clock   *)
(* or an earlier one, whatever the time of day; a reminder whose time has   *)
(* no date is left out.                                                     *)

\* the calendar date a time string names, in days since 2024-01-01; -1 if none
CalendarDay(time) ==
    CASE time = "2024-01-01 23:59" -> 0
      [] time = "2024-01-03 00:00" -> 2
      [] OTHER -> -1

C9_DueByTodayIsDateOnOrBefore ==
    lastOp.name = "getAllRemindersDueByToday" /\ lastResult.msg = "list" =>
        LET today == lastOp.now \div MinutesPerDay
        IN  lastResult.value =
                SelectSeq(getAllReminders(reminders),
                          LAMBDA r : CalendarDay(r.time) # -1 /\ CalendarDay(r.time) <= today)

\* on 2024-01-02, with a reminder of the day before and one of the day after,
\* the list is the one of the day before
C9_Witness ==
    /\ lastOp.name = "getAllRemindersDueByToday"
    /\ lastOp.now \div MinutesPerDay = 1
    /\ Len(reminders) = 2
    /\ reminders[1].value.time = "2024-01-03 00:00"
    /\ reminders[2].value.time = "2024-01-01 23:59"
    /\ lastResult.value = <<reminders[2].value>>

-----------------------------------------------------------------------------
(* C10: constructing the store throws nothing; when the file is missing, or *)
(* is there but is not a sequence of (id, Reminder) pairs, the store starts *)
(* empty; when it is such a sequence the store starts with exactly its      *)
(* pairs.                                                                   *)

\* the file parses as a sequence of pairs of a key and a Reminder
IsReminderFile(f) ==
    /\ f.kind = "array"
    /\ \A i \in DOMAIN f.data : f.data[i][2] # Null

\* the Map has the keys of the file, each with a value the file pairs it with
HasPairsOf(map, f) ==
    /\ \A i \in DOMAIN f.data : MapHas(map, f.data[i][1])
    /\ \A j \in DOMAIN map :
           \E i \in DOMAIN f.data : f.data[i] = <<map[j].key, map[j].value>>

C10_ConstructLoadsOrStartsEmpty ==
    lastOp.name = "construct" =>
        /\ pc = "running"
        /\ IF IsReminderFile(file)
           THEN HasPairsOf(reminders, file)
           ELSE reminders = <<>>
-----------------------------------------------------------------------------
(* C11: in every state of a running store, also right after a load that     *)
(* did not fail, every key of the Map is the id field of the Reminder it    *)
(* maps to.                                                                 *)
C11_KeyIsIdOfItsReminder ==
    pc # "stopped" =>
        \A i \in DOMAIN reminders :
            reminders[i].value = Null \/ reminders[i].value.id = reminders[i].key
-----------------------------------------------------------------------------
(* C12: a createReminder call ends, for every message and time and from     *)
(* every state of a running store: with fair draws the loop of              *)
(* generateUniqueId is left, and the call has then inserted the new         *)
(* Reminder, written the file and returned the id; nothing but a write that *)
(* fails (the persistence failure of C16) makes it throw instead.           *)
C12_CreateTerminates ==
    /\ [](lastOp.name = "createReminder" /\ pc # "generating" =>
            \/ /\ lastResult.msg = "created"
               /\ pc = "running"
               /\ MapHas(reminders, lastResult.value)
               /\ FileHoldsMap(file, reminders)
            \/ /\ lastResult.msg = "threw"
               /\ pc = "stopped"
               /\ ~FileHoldsMap(file, reminders))
    /\ (pc = "generating") ~> (pc # "generating")

\* createReminder("buy milk", ...) has drawn the id the store holds and is
\* about to draw again
C12_Witness ==
    /\ pc = "generating"
    /\ lastResult.msg = "drawn again"
    /\ lastOp.message = "buy milk"
    /\ MapHas(reminders, lastResult.value)
-----------------------------------------------------------------------------
\* the methods that only look up or list
ReadOps ==
    {"exists", "getReminder", "getAllReminders", "getAllRemindersMarkedAsCompleted",
     "getAllRemindersNotMarkedAsCompleted", "getAllRemindersDueByToday"}

(* C13: a call of exists, getReminder, getAllReminders or one of the three  *)
(* filtering lists leaves the Map and the file as they were, whatever the   *)
(* store holds and whether the call returns or throws.                      *)
C13_ReadsChangeNothing ==
    [][lastOp'.name \in ReadOps => reminders' = reminders /\ file' = file]_vars

\* getAllRemindersDueByToday has returned one of the two reminders of the store
C13_Witness ==
    /\ lastOp.name = "getAllRemindersDueByToday"
    /\ lastResult.msg = "list"
    /\ Len(lastResult.value) = 1
    /\ Len(reminders) = 2
    /\ FileHoldsMap(file, reminders)
-----------------------------------------------------------------------------
\* the ids of getAllReminders(), in its order
ListedIds(map) == [i \in DOMAIN map |-> getAllReminders(map)[i].id]

-----------------------------------------------------------------------------
\* the call of this step is name(id) for an id of the store whose reminder has
\* completed = flag already
AlreadySet(name, flag) ==
    /\ lastOp'.name = name
    /\ MapHas(reminders, lastOp'.id)
    /\ MapGet(reminders, lastOp'.id).completed = flag

(* C15: markReminderAsCompleted(id) on a reminder that is completed, and    *)
(* unmarkReminderAsCompleted(id) on one that is pending, check nothing but  *)
(* the id: the call reports success like any other (unless its write        *)
(* fails) and leaves the Map and the file as they were, so a second call    *)
(* gives the state the first one gave.                                      *)
C15_MarkUnmarkIdempotent ==
    [][/\ AlreadySet("markReminderAsCompleted", TRUE) =>
              /\ reminders' = reminders
              /\ lastResult'.msg \in {"marked as completed", "threw"}
              /\ lastResult'.msg = "marked as completed" =>
                     file' = file /\ lastResult'.value = lastOp'.id
       /\ AlreadySet("unmarkReminderAsCompleted", FALSE) =>
              /\ reminders' = reminders
              /\ lastResult'.msg \in {"unmarked as completed", "threw"}
              /\ lastResult'.msg = "unmarked as completed" =>
                     file' = file /\ lastResult'.value = lastOp'.id
       /\ \A msg \in {"marked as completed", "unmarked as completed"} :
              /\ lastResult.msg = msg
              /\ lastResult'.msg = msg
              /\ lastOp'.id = lastOp.id
              => reminders' = reminders /\ file' = file
      ]_vars

\* markReminderAsCompleted has succeeded in a store whose two reminders are
\* both completed
C15_Witness ==
    /\ lastOp.name = "markReminderAsCompleted"
    /\ lastResult.msg = "marked as completed"
    /\ Len(reminders) = 2
    /\ Len(getAllRemindersMarkedAsCompleted(reminders)) = 2
    /\ FileHoldsMap(file, reminders)
-----------------------------------------------------------------------------
\* this step is a mutating call that got as far as saveToFile(), and the write
\* failed
WriteFailed ==
    LET op == lastOp'
    IN  \E w \in WriteOutcomes \ {"ok"} :
            \/ /\ op.name = "createReminder"
               /\ pc' # "generating"
               /\ \E k \in Randoms : \/ CreateReminder(op.message, op.time, k, w)
                                     \/ Redraw(k, w)
            \/ /\ op.name \in IdMutators
               /\ MapHas(reminders, op.id)
               /\ \/ MarkReminderAsCompleted(op.id, w)
                  \/ UnmarkReminderAsCompleted(op.id, w)
                  \/ RemoveReminder(op.id, w)
                  \/ UpdateReminder(op.id, op.message, op.time, w)

(* C16: a mutating call whose file write fails throws, and the throw ends   *)
(* the process; a call that returns its success string has written the     *)
(* file from the Map it leaves.                                             *)
C16_WriteFailureIsFatal ==
    [][/\ WriteFailed => lastResult'.msg = "threw" /\ pc' = "stopped"
       /\ lastResult'.msg \in SuccessMsgs => FileHoldsMap(file', reminders')
      ]_vars

\* markReminderAsCompleted has thrown: the Map has the reminder completed, the
\* file, which could not be written, has it pending
C16_Witness ==
    /\ lastOp.name = "markReminderAsCompleted"
    /\ lastResult.msg = "threw"
    /\ pc = "stopped"
    /\ file.kind = "array"
    /\ Len(getAllRemindersMarkedAsCompleted(reminders)) = 1
    /\ ~FileHoldsMap(file, reminders)
-----------------------------------------------------------------------------
\* every reminder of the Map before the step, but the one under id, is in the
\* Map after the step as it was
OthersKept(id) ==
    \A k \in MapKeys(reminders) \ {id} :
        MapHas(reminders', k) /\ MapGet(reminders', k) = MapGet(reminders, k)

(* C17: a mutating call changes no reminder but its own: createReminder     *)
(* adds one entry, removeReminder(id) takes out the entry of id and no      *)
(* other, update, mark and unmark keep the set of ids and every entry but   *)
(* the one of id, and no other call changes the set of ids.                 *)
C17_OtherRemindersUntouched ==
    [][LET name == lastOp'.name
           ids == MapKeys(reminders)
           ids2 == MapKeys(reminders')
       IN  /\ name = "createReminder" /\ pc' # "generating" =>
                  /\ Len(reminders') = Len(reminders) + 1
                  /\ \E id \in DrawableIds \ ids : ids2 = ids \cup {id}
                  /\ OthersKept(<<>>)
           /\ name = "removeReminder" =>
                  /\ ids2 = ids \ {lastOp'.id}
                  /\ Len(reminders') = Cardinality(ids2)
                  /\ OthersKept(lastOp'.id)
           /\ name \in {"updateReminder", "markReminderAsCompleted",
                        "unmarkReminderAsCompleted"} =>
                  /\ ids2 = ids
                  /\ OthersKept(lastOp'.id)
           /\ name \notin {"createReminder", "removeReminder", "construct"} =>
                  ids2 = ids
      ]_vars

\* one of two reminders has been marked; the other one, created with a
\* message, is pending as before
C17_Witness ==
    /\ lastResult.msg = "marked as completed"
    /\ Len(reminders) = 2
    /\ \E i, j \in DOMAIN reminders :
           /\ reminders[i].key = lastOp.id
           /\ reminders[i].value.completed
           /\ j # i
           /\ ~reminders[j].value.completed
           /\ reminders[j].value.message = "buy milk"
-----------------------------------------------------------------------------
\* where the reminder with this id stands in a list
PositionIn(list, id) == CHOOSE i \in DOMAIN list : list[i].id = id

\* every reminder of part is a reminder of whole, and part has its reminders in
\* the order whole has them
InOrderOf(part, whole) ==
    /\ \A i \in DOMAIN part : \E j \in DOMAIN whole : whole[j] = part[i]
    /\ \A i, j \in DOMAIN part :
           i < j => PositionIn(whole, part[i].id) < PositionIn(whole, part[j].id)

(* C18: in every state the completed list and the pending list divide       *)
(* getAllReminders(): no reminder is in both, every reminder is in one of   *)
(* them, once, and each list keeps the order of getAllReminders().          *)
C18_CompletedAndPendingPartitionAll ==
    LET all == getAllReminders(reminders)
        completed == getAllRemindersMarkedAsCompleted(reminders)
        pending == getAllRemindersNotMarkedAsCompleted(reminders)
    IN  /\ IdsOf(completed) \cap IdsOf(pending) = {}
        /\ IdsOf(completed) \cup IdsOf(pending) = IdsOf(all)
        /\ Len(completed) + Len(pending) = Len(all)
        /\ InOrderOf(completed, all)
        /\ InOrderOf(pending, all)

\* the pending list has been asked for and holds the first of two reminders;
\* the second one is completed
C18_Witness ==
    /\ lastOp.name = "getAllRemindersNotMarkedAsCompleted"
    /\ Len(reminders) = 2
    /\ Len(lastResult.value) = 1
    /\ lastResult.value[1] = reminders[1].value
    /\ reminders[2].value.completed
-----------------------------------------------------------------------------
(* C19: in every state of a running store and for every id, exists(id) is   *)
(* true exactly when getReminder(id) returns a Reminder and not null, also  *)
(* when the Map was loaded from a file.                                     *)
C19_ExistsIffGetReturnsReminder ==
    pc # "stopped" =>
        \A id \in TypedIds : exists(reminders, id) <=> getReminder(reminders, id) # Null
-----------------------------------------------------------------------------
\* the store is running on a file that loadFromFile() could not read
RunningOnUnreadableFile == pc # "stopped" /\ LoadThrows(file)

(* C20: after a load that failed the store is empty and the file stays as   *)
(* it was through every call that does not write; the first mutating call  *)
(* that succeeds, a createReminder, writes the file anew from the Map, so   *)
(* that the file then holds the created reminder and nothing of what it     *)
(* held before.  (A call whose write fails throws, and the file is still    *)
(* unreadable.)                                                             *)
C20_UnreadableFileKeptUntilFirstSave ==
    /\ [](RunningOnUnreadableFile => reminders = <<>>)
    /\ [][RunningOnUnreadableFile =>
            /\ lastResult'.msg \notin SuccessMsgs \cup {"threw"} => file' = file
            /\ lastResult'.msg = "threw" => LoadThrows(file')
            /\ lastResult'.msg \in SuccessMsgs =>
                   /\ lastResult'.msg = "created"
                   /\ Len(reminders') = 1
                   /\ reminders'[1].key = lastResult'.value
                   /\ FileHoldsMap(file', reminders')
         ]_vars

\* a store that could not read its file has answered a removeReminder with
\* "not found"; the file is the JSON object it was
C20_Witness ==
    /\ lastOp.name = "removeReminder"
    /\ lastResult.msg = "not found"
    /\ pc = "running"
    /\ file.kind = "object"
    /\ reminders = <<>>

====
